---- MODULE Spec2Model ----
(***************************************************************************)
(* The card enrichment pipeline of enrich_cards.py: the progress tracker   *)
(* (EnrichmentProgress), the orchestrator loop (enrich_card_data), the     *)
(* field extractor (transformer.py), the lookup client (scryfall_client.py)*)
(* and the part of main() that runs them and writes the files.             *)
(*                                                                         *)
(* Files (input table, progress file, output file) survive the process;    *)
(* everything else is the memory of one run of main() and is lost when the *)
(* process exits.  A run can be interrupted (KeyboardInterrupt) between    *)
(* any two steps.                                                          *)
(***************************************************************************)
EXTENDS Integers, Sequences, FiniteSets, TLC

(***************************************************************************)
(* Bounds of the model and constants of the program.                       *)
(***************************************************************************)
MaxSmallRows == 2      \* short input tables have 0..MaxSmallRows rows
LongRows == 11         \* the long input table has LongRows rows
MaxFaultyRows == 1     \* rows (over all runs) on which anything goes wrong
MaxInterrupts == 1     \* runs that end by a user interrupt
ScenarioRows == 25     \* rows of the table of the crash scenario
CrashRow == 12         \* the crash comes once this row has been processed
CheckpointEvery == 10  \* "if successful_fetches % 10 == 0"
DefaultMaxRetries == 3 \* max_retries: int = 3
DefaultRateLimit == 100 \* rate_limit: float = 0.1, in milliseconds

(***************************************************************************)
(* JSON values, tagged by their Python type.                               *)
(***************************************************************************)
Str(s) == [t |-> "str", v |-> s]
Num(n) == [t |-> "num", v |-> n]
List(q) == [t |-> "list", v |-> q]
Obj(d) == [t |-> "obj", v |-> d]
Null == [t |-> "null", v |-> "None"]

\* ','.join(q) for a list of strings
RECURSIVE Join(_)
Join(q) ==
  IF q = <<>> THEN ""
  ELSE IF Len(q) = 1 THEN q[1]
  ELSE q[1] \o "," \o Join(Tail(q))

\* d.get(k, default)
Get(d, k, default) == IF k \in DOMAIN d THEN d[k] ELSE default

(***************************************************************************)
(* transformer.py                                                          *)
(***************************************************************************)
get_required_fields ==
  << "mana_cost", "type_line", "oracle_text", "power", "toughness",
     "cmc", "colors", "color_identity", "rarity", "loyalty",
     "set_name", "collector_number", "image_uris" >>

FieldSet == { get_required_fields[k] : k \in 1..Len(get_required_fields) }

\* the keys extract_card_fields copies as they are
PlainKeys ==
  { "mana_cost", "type_line", "oracle_text", "power", "toughness", "cmc",
    "rarity", "loyalty", "set_name", "collector_number" }

\* the keys extract_card_fields joins with ','
JoinedKeys == { "colors", "color_identity" }

\* the normal then the small URL of one image set, each only if present
ImageSetUrls(uris) ==
  (IF "normal" \in DOMAIN uris.v THEN << uris.v["normal"] >> ELSE << >>)
  \o (IF "small" \in DOMAIN uris.v THEN << uris.v["small"] >> ELSE << >>)

RECURSIVE FaceUrls(_)
FaceUrls(faces) ==
  IF faces = << >> THEN << >>
  ELSE (IF "image_uris" \in DOMAIN faces[1]
        THEN ImageSetUrls(faces[1]["image_uris"]) ELSE << >>)
       \o FaceUrls(Tail(faces))

\* "'normal' in image_uris" raises TypeError unless image_uris is a mapping
ImageUrlsRaises(card_data) ==
  IF "image_uris" \in DOMAIN card_data
  THEN card_data["image_uris"].t # "obj"
  ELSE IF "card_faces" \in DOMAIN card_data
       THEN card_data["card_faces"].t # "list"
       ELSE FALSE

_extract_image_urls(card_data) ==
  IF "image_uris" \in DOMAIN card_data
  THEN Join(ImageSetUrls(card_data["image_uris"]))
  ELSE IF "card_faces" \in DOMAIN card_data
       THEN Join(FaceUrls(card_data["card_faces"].v))
       ELSE ""

\* ','.join(value) raises TypeError: value is not iterable (a string is: its
\* characters are joined)
JoinRaises(value) == value.t \notin { "list", "str" }

\* ','.join(value); the strings of the model that stand where a list is
\* expected have one character at most, and joining them gives them back
JoinOf(value) == IF value.t = "list" THEN Join(value.v) ELSE value.v

\* the statements of the try block of extract_card_fields raise on this record
ExtractRaises(card_data) ==
  \/ \E k \in JoinedKeys : k \in DOMAIN card_data /\ JoinRaises(card_data[k])
  \/ ImageUrlsRaises(card_data)

\* the dict extract_card_fields returns when its try block raised
EmptyExtract == [f \in FieldSet |-> Str("")]

\* an extractor that keeps what it could extract when a statement raises
extract_keeping(card_data) ==
  [f \in FieldSet |->
     IF f \in PlainKeys THEN Get(card_data, f, Str(""))
     ELSE IF f \in JoinedKeys
          THEN (IF JoinRaises(Get(card_data, f, List(<< >>))) THEN Str("")
                ELSE Str(JoinOf(Get(card_data, f, List(<< >>)))))
          ELSE IF ImageUrlsRaises(card_data) THEN Str("")
               ELSE Str(_extract_image_urls(card_data))]

extract_card_fields(card_data) ==
  IF ExtractRaises(card_data) THEN EmptyExtract
  ELSE [f \in FieldSet |->
          IF f \in PlainKeys THEN Get(card_data, f, Str(""))
          ELSE IF f \in JoinedKeys
               THEN Str(JoinOf(Get(card_data, f, List(<< >>))))
               ELSE Str(_extract_image_urls(card_data))]

(***************************************************************************)
(* The records the lookup service can hold for an identifier.              *)
(***************************************************************************)
\* a single-faced creature card: every key but loyalty
FullCard(id) ==
  [ k \in { "name", "mana_cost", "type_line", "oracle_text", "power",
            "toughness", "cmc", "colors", "color_identity", "rarity",
            "set_name", "collector_number", "image_uris" } |->
      CASE k = "name" -> Str("Card " \o id)
        [] k = "mana_cost" -> Str("{1}{G}")
        [] k = "type_line" -> Str("Creature")
        [] k = "oracle_text" -> Str("Trample")
        [] k = "power" -> Str("2")
        [] k = "toughness" -> Str("*")
        [] k = "cmc" -> Num(2)
        [] k = "colors" -> List(<< "G" >>)
        [] k = "color_identity" -> List(<< "G", "W" >>)
        [] k = "rarity" -> Str("rare")
        [] k = "set_name" -> Str("Alpha")
        [] k = "collector_number" -> Str(id)
        [] OTHER -> Obj([ u \in { "normal", "small" } |-> u \o "/" \o id ]) ]

\* one face of a double-faced card
Face(id, side) ==
  [ k \in { "name", "image_uris" } |->
      IF k = "name" THEN Str(side \o " of " \o id)
      ELSE Obj([ u \in { "normal", "small" } |-> u \o "/" \o side \o "/" \o id ]) ]

\* a double-faced card: the faces carry the images, few top-level keys
DoubleFacedCard(id) ==
  [ k \in { "name", "type_line", "cmc", "color_identity", "rarity",
            "set_name", "collector_number", "card_faces" } |->
      CASE k = "name" -> Str("Card " \o id)
        [] k = "type_line" -> Str("Creature // Land")
        [] k = "cmc" -> Num(3)
        [] k = "color_identity" -> List(<< >>)
        [] k = "rarity" -> Str("common")
        [] k = "set_name" -> Str("Beta")
        [] k = "collector_number" -> Str(id)
        [] OTHER -> List(<< Face(id, "front"), Face(id, "back") >>) ]

\* a record of malformed shape: "colors": null
MalformedCard(id) == [ FullCard(id) EXCEPT !["colors"] = Null ]

\* the JSON object without keys
EmptyCard == [ k \in {} |-> Null ]

\* a record without some keys, a record with a key set to a value
Without(card, keys) == [ k \in DOMAIN card \ keys |-> card[k] ]
With(card, key, value) ==
  [ k \in DOMAIN card \cup { key } |-> IF k = key THEN value ELSE card[k] ]

\* values of the wrong type for a key
WrongValues(key) ==
  IF key \in { "image_uris", "card_faces" } THEN { Null, Num(1) }
  ELSE { Null, Num(1), Str("G") }

\* image sets: any of the sizes normal, small, large
ImageSets(tag, sizes) ==
  { Obj([ u \in keys |-> u \o "/" \o tag ]) : keys \in SUBSET sizes }

\* a face with one of the image sets, or with none
FacesOf(side) ==
  { [ name |-> Str(side) ] }
    \cup { [ name |-> Str(side), image_uris |-> set ] :
             set \in ImageSets(side, { "normal", "small" }) }

\* the records _extract_image_urls is tried on: with and without an image
\* set of their own, with and without faces (none, one or two)
ImageInputs ==
  LET bare == [ name |-> Str("Card A") ]
      tops == { bare }
                \cup { With(bare, "image_uris", set) :
                         set \in ImageSets("top", { "normal", "small", "large" }) }
      faces == { << >> }
                 \cup { << f >> : f \in FacesOf("front") }
                 \cup { << f, b >> : f \in FacesOf("front"), b \in FacesOf("back") }
  IN tops \cup { With(card, "card_faces", List(q)) : card \in tops, q \in faces }

\* the records the extractor is tried on: the full and the double-faced
\* record, some keys missing, at most one key with a value of the wrong type
ExtractInputs ==
  LET bases == { FullCard("A"), DoubleFacedCard("A") }
      thinned == { Without(card, keys) :
                     card \in bases,
                     keys \in SUBSET { "mana_cost", "cmc", "colors", "image_uris" } }
  IN thinned
     \cup { With(card, key, value) :
              card \in thinned,
              key \in { "colors", "color_identity", "power" },
              value \in WrongValues("colors") }
     \cup { With(card, key, value) :
              card \in thinned,
              key \in { "image_uris", "card_faces" },
              value \in WrongValues("image_uris") }

\* the records the service may hold for an identifier: any of the four for
\* a short table, the full record only for the longer ones
CardsOf(id, short) ==
  IF short
  THEN { FullCard(id), DoubleFacedCard(id), MalformedCard(id), EmptyCard }
  ELSE { FullCard(id) }

(***************************************************************************)
(* scryfall_client.py                                                      *)
(***************************************************************************)
None == [ kind |-> "none" ]
Record(card) == [ kind |-> "record", card |-> card ]

\* what session.get(url) can do for an identifier
HttpOutcomes(id, short) ==
  { [ status |-> 200, body |-> c ] : c \in CardsOf(id, short) }
  \cup { [ status |-> 404 ], [ status |-> 500 ],
         [ status |-> 0, error |-> "Timeout" ],
         [ status |-> 0, error |-> "RequestException" ] }

\* ScryfallClient.get_card_by_id on one HTTP outcome
get_card_by_id(http) ==
  IF http.status = 200 THEN Record(http.body) ELSE None

\* "if card_data:" (None and the empty dict are false)
Truthy(card_data) == card_data.kind = "record" /\ DOMAIN card_data.card # {}

(***************************************************************************)
(* Input tables (data_ingest.py reads them from the CSV file).             *)
(***************************************************************************)
Columns == { "Name", "Set code", "Scryfall ID" }

\* the k-th identifier
IdName(k) == IF k <= 3 THEN << "A", "B", "C" >>[k] ELSE "I" \o ToString(k)

MkRow(id) ==
  [ c \in Columns |->
      IF c = "Scryfall ID" THEN id
      ELSE IF c = "Name" THEN "Card " \o id ELSE "LEA" ]

\* a row of a table with more columns: the Rarity column of a ManaBox
\* export and a column that has the name of an enrichment field
WideRow(id) ==
  [ c \in Columns \cup { "Rarity", "rarity" } |->
      IF c \in Columns THEN MkRow(id)[c]
      ELSE IF c = "Rarity" THEN "rare" ELSE "mythic" ]

\* tables without one of the required columns
BadTables ==
  { << [ c \in Columns \ { missing } |-> MkRow("A")[c] ] >> :
      missing \in { "Name", "Set code" } }

WideTables == { << WideRow("A") >>, << WideRow("A"), WideRow("B") >> }

\* an identifier pattern: every new identifier is the next unused one
\* (tables that differ only in the names of their identifiers behave alike)
RECURSIVE MaxOf(_)
MaxOf(q) ==
  IF q = << >> THEN 0
  ELSE LET m == MaxOf(Tail(q)) IN IF q[1] > m THEN q[1] ELSE m

Patterns(n) ==
  { q \in [1..n -> 1..n] :
      \A i \in 1..n : q[i] <= 1 + MaxOf(SubSeq(q, 1, i - 1)) }

TableOf(q) == [ i \in 1..Len(q) |-> MkRow(IdName(q[i])) ]

\* short tables, duplicates of identifiers included
SmallTables == UNION { { TableOf(q) : q \in Patterns(n) } : n \in 0..MaxSmallRows }

\* the table of the three-row scenario: identifiers A, B, C
TableABC == TableOf(<< 1, 2, 3 >>)

\* one long table of distinct identifiers, long enough for a checkpoint
LongTable == [ i \in 1..LongRows |-> MkRow(IdName(i)) ]

Tables == SmallTables \cup { TableABC, LongTable }

RECURSIVE UpTo(_)
UpTo(n) == IF n = 0 THEN << >> ELSE Append(UpTo(n - 1), n)

\* the table of the crash scenario: ScenarioRows distinct identifiers
Table25 == TableOf(UpTo(ScenarioRows))

IsShort(table) == Len(table) <= MaxSmallRows

(***************************************************************************)
(* State.                                                                  *)
(***************************************************************************)
VARIABLES
  df,                 \* the input table (the CSV file read by main)
  args,               \* the command line, the configuration file it names
  log_setup,          \* what setup_logging was called with in this run
  progress_file,      \* the content of the progress file
  output_file,        \* the content of the output CSV file
  pc,                 \* where the process is
  exit_code,          \* the exit code of the last run (when pc = "exited")
  max_retries,        \* arguments of enrich_card_data
  rate_limit,
  completed_cards,    \* progress.completed_cards
  enriched_df,
  cards_to_process,   \* the table positions to process, in order
  pos,                \* the position of the loop in cards_to_process
  attempt,
  card_data,
  successful_fetches,
  failed_fetches,
  skipped_cards,
  interrupts,         \* runs ended by an interrupt so far
  faults,             \* rows on which something went wrong so far
  row_faulty,         \* something went wrong on the current row
  loaded,             \* history: the set load_progress read in this run
  fetched,            \* history: the table positions fetched in this run
  row_fetches,        \* history: get_card_by_id calls for the current row
  row_backoffs,       \* history: retry sleeps for the current row
  row_slept,          \* history: milliseconds slept for the current row
  not_found,          \* history: a call for the current row was answered 404
  last_row,           \* history: the tallies of the row finished last
  outcome,            \* history: what became of each table position
  saves,              \* history: saves completed in this run
  last_checkpoint,    \* history: the set the last completed save wrote
  tainted,            \* history: the identifiers marked completed only on
                      \* records whose extraction raised
  llm                 \* a call of chat_prompt: its arguments, its position,
                      \* the calls to the completion service and the sleeps

files == << df, args, progress_file, output_file >>
memory ==
  << pc, exit_code, log_setup, max_retries, rate_limit, completed_cards, enriched_df,
     cards_to_process, pos, attempt, card_data, successful_fetches,
     failed_fetches, skipped_cards >>
tallies == << row_fetches, row_backoffs, row_slept, not_found, last_row >>
history ==
  << interrupts, faults, row_faulty, loaded, fetched, tallies, outcome, saves,
     last_checkpoint, tainted >>
vars == << files, memory, history, llm >>

(***************************************************************************)
(* EnrichmentProgress                                                      *)
(***************************************************************************)
NoFile == [ state |-> "absent", completed_cards |-> {} ]
Truncated == [ state |-> "truncated", completed_cards |-> {} ]
JsonFile(ids) == [ state |-> "json", completed_cards |-> ids ]

\* a file save_progress did not write: content is what json.load makes of
\* it, NotJson when json.load rejects it
NotJson == [ t |-> "garbage", v |-> "" ]
ForeignFile(content) ==
  [ state |-> "foreign", completed_cards |-> {}, content |-> content ]

\* set(s) of a string: its characters (the strings of the model's foreign
\* files have one character at most)
Chars(s) == IF s = "" THEN {} ELSE { s }

\* "set(data.get('completed_cards', []))" raises: data has no get, or the
\* value is not iterable
LoadRaises(data) ==
  \/ data.t # "obj"
  \/ Get(data.v, "completed_cards", List(<< >>)).t \notin { "list", "obj", "str" }

\* set(...) of a list is its elements, of a dict its keys, of a string its
\* characters
load_foreign(data) ==
  IF LoadRaises(data) THEN {}
  ELSE LET value == Get(data.v, "completed_cards", List(<< >>))
       IN IF value.t = "list" THEN { value.v[k] : k \in 1..Len(value.v) }
          ELSE IF value.t = "obj" THEN DOMAIN value.v
          ELSE Chars(value.v)

\* load_progress: a missing file, one json.load rejects or one whose data
\* set(...) rejects gives the empty set
load_progress(file) ==
  IF file.state = "json" THEN file.completed_cards
  ELSE IF file.state = "foreign" THEN load_foreign(file.content)
  ELSE {}

\* a tracker that never reports an identifier completed
is_completed_never(completed, card_id) == FALSE

is_completed(completed, card_id) == card_id \in completed

\* a tracker whose second marking of an identifier undoes the first
mark_toggle(completed, card_id) ==
  IF card_id \in completed THEN completed \ { card_id }
  ELSE completed \cup { card_id }

\* a tracker that marks nothing
mark_nothing(completed, card_id) == completed

mark_completed(completed, card_id) == completed \cup { card_id }

\* save_progress, first half: open(progress_file, 'w') truncates the file
save_open(file) == Truncated

save_dump_nothing(completed) == JsonFile({})

\* save_progress, second half: json.dump writes the set and the file is closed
save_dump(completed) == JsonFile(completed)

(***************************************************************************)
(* enrich_card_data: the pure parts                                        *)
(***************************************************************************)
\* enriched_df = df.copy(), then enriched_df[field] = '' for every field
\* (a column of the input that has the name of a field is set to '' too)
AddColumns(table) ==
  [ i \in 1..Len(table) |->
      [ c \in DOMAIN table[i] \cup FieldSet |->
          IF c \in FieldSet THEN Str("") ELSE table[i][c] ] ]

\* a partition that also leaves out a row whose identifier an earlier row has
RECURSIVE PartitionDistinct(_, _, _)
PartitionDistinct(table, completed, i) ==
  IF i > Len(table) THEN << >>
  ELSE (IF table[i]["Scryfall ID"]
             \notin completed \cup { table[k]["Scryfall ID"] : k \in 1..(i - 1) }
        THEN << i >> ELSE << >>)
       \o PartitionDistinct(table, completed, i + 1)

\* the positions of the rows that are not completed, in table order
RECURSIVE Partition(_, _, _)
Partition(table, completed, i) ==
  IF i > Len(table) THEN << >>
  ELSE (IF ~ is_completed(completed, table[i]["Scryfall ID"])
        THEN << i >> ELSE << >>)
       \o Partition(table, completed, i + 1)

\* the first field whose value the table refuses, 0 if it takes them all;
\* a strict table (string columns) refuses every value that is no string
RECURSIVE FirstRefused(_, _, _)
FirstRefused(extracted, strict, k) ==
  IF k > Len(get_required_fields) \/ ~ strict THEN 0
  ELSE IF extracted[get_required_fields[k]].t # "str" THEN k
  ELSE FirstRefused(extracted, strict, k + 1)

\* "enriched_df.at[index, field] = value" for the fields before position stop
\* (stop = 0: for all of them)
MergeRow(row, extracted, stop) ==
  [ c \in DOMAIN row |->
      IF \E k \in 1..Len(get_required_fields) :
           get_required_fields[k] = c /\ (stop = 0 \/ k < stop)
      THEN extracted[c]
      ELSE row[c] ]

\* a loop that makes one attempt more
MoreAttemptsOneMore(tried, retries) == tried < retries + 1

\* "for attempt in range(max_retries)" goes on after a call that gave nothing
MoreAttempts(tried, retries) == tried < retries

\* a retry sleep after every call that gave nothing, the last one included
BackoffAlways(tried, retries) == tried < retries

\* "attempt < max_retries - 1": the retry sleep is due
BackoffDue(tried, retries) == tried < retries - 1

BackoffSleepFlat(rate) == rate

\* "time.sleep(rate_limit * 2)"
BackoffSleep(rate) == rate * 2

RowSleepNone(rate) == 0

\* "time.sleep(rate_limit)" at the end of the loop body
RowSleep(rate) == rate

\* a loop that never saves before its end
CheckpointNever(successes) == FALSE

CheckpointLate(successes) == successes % (CheckpointEvery + 1) = 0

\* "if successful_fetches % 10 == 0"
CheckpointDue(successes) == successes % CheckpointEvery = 0

\* where the loop goes when it reaches position p of n rows to process
RowEntry(p, n, retries) ==
  IF p > n THEN "final_open"
  ELSE IF MoreAttempts(0, retries) THEN "fetch" ELSE "process"

\* a loop that a failed row ends
AfterFailureAbort == "final_open"

\* where the loop goes after a row that failed
AfterFailure == "sleep"

\* to_csv(index=False): every cell as text
CsvCell(value) ==
  IF value.t = "str" THEN value.v
  ELSE IF value.t = "num" THEN ToString(value.v)
  ELSE ""

to_csv(table) ==
  [ i \in 1..Len(table) |->
      [ c \in DOMAIN table[i] |->
          IF c \in FieldSet THEN CsvCell(table[i][c]) ELSE table[i][c] ] ]

(***************************************************************************)
(* The environment: what a lookup can return, which arguments a run gets.  *)
(***************************************************************************)
Raised == [ kind |-> "raise" ]

\* a call that no HTTP outcome answers
Unanswered == [ status |-> -1 ]

\* client.get_card_by_id(scryfall_id): a ScryfallClient answers by
\* get_card_by_id; any other client object may also raise
ClientCalls(id, short) == HttpOutcomes(id, short) \cup { Unanswered }

ClientResult(call) ==
  IF call.status = Unanswered.status THEN Raised ELSE get_card_by_id(call)

ClientOutcomes(id, short) ==
  { ClientResult(call) : call \in ClientCalls(id, short) }

\* the lookup that goes well: the full record at once
Clean(id) == Record(FullCard(id))

\* the settings main reads from the command line and the configuration file
Settings == { "log_level", "log_file", "rate_limit", "max_retries" }

\* the default of add_argument, which is also the default of config.get
\* (--log-file has none)
Default(name) ==
  CASE name = "log_level" -> Str("INFO")
    [] name = "log_file" -> Null
    [] name = "rate_limit" -> Num(DefaultRateLimit)
    [] OTHER -> Num(DefaultMaxRetries)

\* parser.parse_args(): the value of the flag, the default without the flag
parse_args(flags, name) == Get(flags, name, Default(name))

\* what Python's "or" takes for false
Falsy(value) ==
  \/ value.t = "null"
  \/ value.t = "num" /\ value.v = 0
  \/ value.t = "str" /\ value.v = ""

\* "args.<name> or config.get('<name>', <default>)"
Effective(cmd, name) ==
  IF ~ Falsy(parse_args(cmd.flags, name)) THEN parse_args(cmd.flags, name)
  ELSE Get(cmd.config, name, Default(name))

\* no key, no flag
Empty == [ name \in {} |-> Null ]

\* a command line that gives max_retries and rate_limit by flags (a
\* max_retries of 0 takes effect only when the configuration file says 0
\* too), with --resume, the input file being there
CommandLine(retries, rate) ==
  [ flags |-> [ name \in { "max_retries", "rate_limit" } |->
                  IF name = "max_retries" THEN Num(retries) ELSE Num(rate) ],
    config |-> IF retries = 0 THEN [ name \in { "max_retries" } |-> Num(0) ]
               ELSE Empty,
    resume |-> TRUE,
    input |-> "present" ]

\* the command lines: a short table is run with a max_retries of 0 up to
\* the default and a rate limit of the default or half of it, the longer
\* ones with the defaults
ArgsFor(table) ==
  IF IsShort(table)
  THEN { CommandLine(retries, rate) :
           retries \in 0..DefaultMaxRetries,
           rate \in { DefaultRateLimit \div 2, DefaultRateLimit } }
  ELSE { CommandLine(DefaultMaxRetries, DefaultRateLimit) }

\* main stops before the try block or in read_manabox_csv: no file under
\* --input, or a table without one of the required columns
HasColumns(table) == \A i \in 1..Len(table) : Columns \subseteq DOMAIN table[i]

\* a main that does not look at its input
InputNeverChecked(cmd, table) == FALSE

InputError(cmd, table) == cmd.input = "absent" \/ ~ HasColumns(table)

NoLogging == [ level |-> Null, file |-> Null ]

\* something may go wrong on the current row
CanFail == row_faulty \/ faults < MaxFaultyRows

NoOutput == [ written |-> FALSE, rows |-> << >> ]
NoRow == [ index |-> 0, fetches |-> 0, backoffs |-> 0, slept |-> 0,
           outcome |-> "pending" ]

Running == pc \notin { "idle", "exited" }

\* the table position the loop is at
Index == cards_to_process[pos]

\* what can be under --progress-file when main starts and no run of this
\* program left it there
ForeignContents ==
  { NotJson,
    List(<< "A" >>),
    Obj([ timestamp |-> Num(1) ]),
    Obj([ completed_cards |-> Null ]),
    Obj([ completed_cards |-> Num(5) ]),
    Obj([ completed_cards |-> Str("A") ]),
    Obj([ completed_cards |-> Obj([ A |-> Num(1) ]) ]),
    Obj([ completed_cards |-> List(<< "A" >>) ]) }

FoundFiles ==
  { NoFile, Truncated, JsonFile({ "A" }) }
    \cup { ForeignFile(content) : content \in ForeignContents }

(***************************************************************************)
(* llm_client.chat_prompt: the values of its state.  Times are in          *)
(* milliseconds.                                                           *)
(***************************************************************************)
MaxChatRetries == 4
DefaultRetries == 3
DefaultBackoff == 1000

Pending == [ kind |-> "pending", v |-> "" ]
Returned(text) == [ kind |-> "return", v |-> text ]
Raises(error) == [ kind |-> "raise", v |-> error ]

\* client.chat.completions.create and response.choices[0].message.content:
\* the text of the answer, or an exception
Completions ==
  { [ ok |-> TRUE, v |-> text ] : text \in { "1. Sol Ring", "" } }
    \cup { [ ok |-> FALSE, v |-> error ] : error \in { "APITimeoutError", "IndexError" } }

ChatCall(api_key, retries, backoff) ==
  [ pc |-> "start", api_key |-> api_key, retries |-> retries, backoff |-> backoff,
    attempt |-> 0, calls |-> << >>, slept |-> << >>, result |-> Pending ]

\* no call of chat_prompt is under way
NoChat == [ ChatCall(FALSE, 0, 0) EXCEPT !.pc = "idle" ]

\* the settings a command line or a configuration file can give: the set of
\* the functions from some of the settings to one of values[name]
PartialSettings(values) ==
  UNION { { f \in [ names -> UNION { values[name] : name \in names } ] :
              \A name \in names : f[name] \in values[name] } :
          names \in SUBSET Settings }

\* values of the flags (0 is a value --rate-limit and --max-retries take)
FlagValues ==
  [ name \in Settings |->
      CASE name = "log_level" -> { Str("DEBUG") }
        [] name = "log_file" -> { Str("run.log") }
        [] name = "rate_limit" -> { Num(0), Num(DefaultRateLimit \div 2) }
        [] OTHER -> { Num(0), Num(DefaultMaxRetries + 2) } ]

\* values of the keys of the configuration file
ConfigValues ==
  [ name \in Settings |->
      CASE name = "log_level" -> { Str("WARNING") }
        [] name = "log_file" -> { Str("cfg.log") }
        [] name = "rate_limit" -> { Num(DefaultRateLimit * 2) }
        [] OTHER -> { Num(1) } ]

\* command lines with any of the four flags, with or without a
\* configuration file that has any of the four keys
ConfigLines ==
  [ flags : PartialSettings(FlagValues),
    config : PartialSettings(ConfigValues),
    resume : { TRUE },
    input : { "present" } ]

\* the state before main runs, but for the table and the command line
InitRest(found) ==
  /\ progress_file \in found
  /\ output_file = NoOutput
  /\ pc = "idle"
  /\ exit_code = 0
  /\ max_retries = 0
  /\ rate_limit = 0
  /\ log_setup = NoLogging
  /\ completed_cards = {}
  /\ enriched_df = << >>
  /\ cards_to_process = << >>
  /\ pos = 0
  /\ attempt = 0
  /\ card_data = None
  /\ successful_fetches = 0
  /\ failed_fetches = 0
  /\ skipped_cards = 0
  /\ interrupts = 0
  /\ faults = 0
  /\ row_faulty = FALSE
  /\ loaded = {}
  /\ fetched = {}
  /\ row_fetches = 0
  /\ row_backoffs = 0
  /\ row_slept = 0
  /\ not_found = FALSE
  /\ last_row = NoRow
  /\ outcome = [ i \in 1..Len(df) |-> "pending" ]
  /\ saves = 0
  /\ last_checkpoint = {}
  /\ tainted = {}

InitGiven(tables, found, inputs) ==
  /\ df \in tables
  /\ args \in { [ cmd EXCEPT !.input = i ] : cmd \in ArgsFor(df), i \in inputs }
  /\ InitRest(found)
  /\ llm = NoChat

InitFound(tables, found) == InitGiven(tables, found, { "present" })

InitOn(tables) == InitFound(tables, { NoFile })

Init == InitOn(Tables)

(***************************************************************************)
(* main, up to the loop of enrich_card_data: the arguments, the progress   *)
(* tracker (which loads the progress file), the copy of the table with the *)
(* new columns, the partition.  The model runs main again only after a run *)
(* that was interrupted, with the same command line.                       *)
(***************************************************************************)
Proceed ==
  /\ max_retries' = Effective(args, "max_retries").v
  /\ rate_limit' = Effective(args, "rate_limit").v
  /\ log_setup' = [ level |-> Effective(args, "log_level"),
                    file |-> Effective(args, "log_file") ]
  /\ LET completed == load_progress(progress_file)
         todo == Partition(df, completed, 1)
     IN /\ completed_cards' = completed
        /\ loaded' = completed
        /\ cards_to_process' = todo
        /\ skipped_cards' = Len(df) - Len(todo)
        /\ outcome' =
             [ i \in 1..Len(df) |->
                 IF is_completed(completed, df[i]["Scryfall ID"])
                 THEN "skipped" ELSE "pending" ]
        /\ pc' = RowEntry(1, Len(todo), Effective(args, "max_retries").v)
  /\ enriched_df' = AddColumns(df)
  /\ pos' = 1
  /\ attempt' = 0
  /\ card_data' = None
  /\ successful_fetches' = 0
  /\ failed_fetches' = 0
  /\ row_faulty' = FALSE
  /\ fetched' = {}
  /\ row_fetches' = 0
  /\ row_backoffs' = 0
  /\ row_slept' = 0
  /\ not_found' = FALSE
  /\ last_row' = NoRow
  /\ saves' = 0
  /\ UNCHANGED << llm, files, exit_code, interrupts, faults, last_checkpoint, tainted >>

(***************************************************************************)
(* One pass of "for attempt in range(max_retries)": the call, and the      *)
(* retry sleep when the call gave nothing and an attempt is left.          *)
(***************************************************************************)
Attempt ==
  /\ pc = "fetch"
  /\ \E call \in ClientCalls(df[Index]["Scryfall ID"], IsShort(df)) :
       LET result == ClientResult(call)
           bad == result # Clean(df[Index]["Scryfall ID"])
       IN
       /\ bad => CanFail
       /\ not_found' = (not_found \/ call.status = 404)
       /\ faults' = IF bad /\ ~ row_faulty THEN faults + 1 ELSE faults
       /\ row_faulty' = (row_faulty \/ bad)
       /\ row_fetches' = row_fetches + 1
       /\ fetched' = fetched \cup { Index }
       /\ IF Truthy(result)
          THEN /\ card_data' = result
               /\ pc' = "process"
               /\ UNCHANGED << attempt, row_backoffs, row_slept >>
          ELSE /\ card_data' = None
               /\ attempt' = attempt + 1
               /\ pc' = IF MoreAttempts(attempt + 1, max_retries)
                        THEN "fetch" ELSE "process"
               /\ IF BackoffDue(attempt, max_retries)
                  THEN /\ row_backoffs' = row_backoffs + 1
                       /\ row_slept' = row_slept + BackoffSleep(rate_limit)
                  ELSE UNCHANGED << row_backoffs, row_slept >>
  /\ UNCHANGED << llm, files, exit_code, log_setup, max_retries,
                  rate_limit, completed_cards,
                  enriched_df, cards_to_process, pos, successful_fetches,
                  failed_fetches, skipped_cards, interrupts, loaded, last_row,
                  outcome, saves, last_checkpoint, tainted >>

(***************************************************************************)
(* "if card_data: ... else: ...": extraction, merge, marking, counting.    *)
(* The merge stops at the first value the table refuses (which values a    *)
(* column refuses depends on the pandas build), and the row then fails     *)
(* with the fields merged so far.                                          *)
(***************************************************************************)
Process ==
  /\ pc = "process"
  /\ IF Truthy(card_data)
     THEN \E strict \in BOOLEAN :
            LET extracted == extract_card_fields(card_data.card)
                stop == FirstRefused(extracted, strict, 1)
            IN /\ stop # 0 => CanFail
               /\ faults' = IF stop # 0 /\ ~ row_faulty THEN faults + 1 ELSE faults
               /\ row_faulty' = (row_faulty \/ stop # 0)
               /\ enriched_df' =
                    [ enriched_df EXCEPT ![Index] = MergeRow(@, extracted, stop) ]
               /\ IF stop = 0
                  THEN /\ successful_fetches' = successful_fetches + 1
                       /\ completed_cards' =
                            mark_completed(completed_cards, df[Index]["Scryfall ID"])
                       /\ outcome' =
                            [ outcome EXCEPT ![Index] =
                                IF ExtractRaises(card_data.card)
                                THEN "degraded" ELSE "success" ]
                       /\ tainted' =
                            IF ~ ExtractRaises(card_data.card)
                            THEN tainted \ { df[Index]["Scryfall ID"] }
                            ELSE IF df[Index]["Scryfall ID"] \in completed_cards
                                 THEN tainted
                                 ELSE tainted \cup { df[Index]["Scryfall ID"] }
                       /\ pc' = IF CheckpointDue(successful_fetches + 1)
                                THEN "ckpt_open" ELSE "sleep"
                       /\ UNCHANGED failed_fetches
                  ELSE /\ failed_fetches' = failed_fetches + 1
                       /\ outcome' = [ outcome EXCEPT ![Index] = "merge_error" ]
                       /\ pc' = AfterFailure
                       /\ UNCHANGED << successful_fetches, completed_cards,
                                       tainted >>
     ELSE /\ failed_fetches' = failed_fetches + 1
          /\ outcome' = [ outcome EXCEPT ![Index] = "no_record" ]
          /\ pc' = AfterFailure
          /\ UNCHANGED << successful_fetches, completed_cards, enriched_df,
                          faults, row_faulty, tainted >>
  /\ UNCHANGED << llm, files, exit_code, log_setup, max_retries,
                  rate_limit, cards_to_process,
                  pos, attempt, card_data, skipped_cards, interrupts, loaded,
                  fetched, tallies, saves, last_checkpoint >>

(***************************************************************************)
(* progress.save_progress(), periodic (in the loop) or final (after it).   *)
(* The file is truncated when it is opened and holds the set only once     *)
(* json.dump has run: an interrupt can fall between the two.               *)
(***************************************************************************)
SaveOpen ==
  /\ pc \in { "ckpt_open", "final_open" }
  /\ progress_file' = save_open(progress_file)
  /\ pc' = IF pc = "ckpt_open" THEN "ckpt_dump" ELSE "final_dump"
  /\ UNCHANGED << llm, df, args, output_file, exit_code, log_setup, max_retries,
                  rate_limit,
                  completed_cards, enriched_df, cards_to_process, pos, attempt,
                  card_data, successful_fetches, failed_fetches, skipped_cards,
                  history >>

SaveDump ==
  /\ pc \in { "ckpt_dump", "final_dump" }
  /\ progress_file' = save_dump(completed_cards)
  /\ last_checkpoint' = completed_cards
  /\ saves' = saves + 1
  /\ pc' = IF pc = "ckpt_dump" THEN "sleep" ELSE "returned"
  /\ UNCHANGED << llm, df, args, output_file, exit_code, log_setup, max_retries,
                  rate_limit,
                  completed_cards, enriched_df, cards_to_process, pos, attempt,
                  card_data, successful_fetches, failed_fetches, skipped_cards,
                  interrupts, faults, row_faulty, loaded, fetched, tallies,
                  outcome, tainted >>

(***************************************************************************)
(* "time.sleep(rate_limit)" at the end of the loop body, then the next row *)
(***************************************************************************)
Sleep ==
  /\ pc = "sleep"
  /\ last_row' = [ index |-> Index, fetches |-> row_fetches,
                   backoffs |-> row_backoffs,
                   slept |-> row_slept + RowSleep(rate_limit),
                   outcome |-> outcome[Index] ]
  /\ row_fetches' = 0
  /\ row_backoffs' = 0
  /\ row_slept' = 0
  /\ not_found' = FALSE
  /\ pos' = pos + 1
  /\ attempt' = 0
  /\ card_data' = None
  /\ row_faulty' = FALSE
  /\ pc' = RowEntry(pos + 1, Len(cards_to_process), max_retries)
  /\ UNCHANGED << llm, files, exit_code, log_setup, max_retries,
                  rate_limit, completed_cards,
                  enriched_df, cards_to_process, successful_fetches,
                  failed_fetches, skipped_cards, interrupts, faults, loaded,
                  fetched, outcome, saves, last_checkpoint, tainted >>

(***************************************************************************)
(* main, after enrich_card_data has returned.                              *)
(***************************************************************************)
\* the memory of a process that has exited (and the history of its run)
Forget ==
  /\ loaded' = {}
  /\ fetched' = {}
  /\ row_fetches' = 0
  /\ row_backoffs' = 0
  /\ row_slept' = 0
  /\ not_found' = FALSE
  /\ last_row' = NoRow
  /\ outcome' = [ i \in 1..Len(df) |-> "pending" ]
  /\ saves' = 0
  /\ max_retries' = 0
  /\ rate_limit' = 0
  /\ log_setup' = NoLogging
  /\ completed_cards' = {}
  /\ enriched_df' = << >>
  /\ cards_to_process' = << >>
  /\ pos' = 0
  /\ attempt' = 0
  /\ card_data' = None
  /\ successful_fetches' = 0
  /\ failed_fetches' = 0
  /\ skipped_cards' = 0
  /\ row_faulty' = FALSE

\* "sys.exit(1)" for an input file that is not there, and for the ValueError
\* of read_manabox_csv, which "except Exception" turns into sys.exit(1)
Abort ==
  /\ pc' = "exited"
  /\ exit_code' = 1
  /\ Forget
  /\ UNCHANGED << llm, files, interrupts, faults, last_checkpoint, tainted >>

\* main from its first line: it stops on an input error, and otherwise goes
\* on to the loop of enrich_card_data
Start ==
  /\ pc = "idle" \/ (pc = "exited" /\ exit_code = 1)
  /\ IF InputError(args, df) THEN Abort ELSE Proceed

\* enriched_df.to_csv(args.output, index=False)
WriteOutput ==
  /\ pc = "returned"
  /\ output_file' = [ written |-> TRUE, rows |-> to_csv(enriched_df) ]
  /\ pc' = "cleanup"
  /\ UNCHANGED << llm, df, args, progress_file, exit_code, log_setup, max_retries,
                  rate_limit,
                  completed_cards, enriched_df, cards_to_process, pos, attempt,
                  card_data, successful_fetches, failed_fetches, skipped_cards,
                  history >>

\* "if Path(args.progress_file).exists(): unlink()", then main returns
Cleanup ==
  /\ pc = "cleanup"
  /\ progress_file' = NoFile
  /\ pc' = "exited"
  /\ exit_code' = 0
  /\ last_checkpoint' = {}
  /\ Forget
  /\ UNCHANGED << llm, df, args, output_file, interrupts, faults, tainted >>

\* KeyboardInterrupt: "except KeyboardInterrupt: ... sys.exit(1)"
Interrupt ==
  /\ Running
  /\ interrupts < MaxInterrupts
  /\ interrupts' = interrupts + 1
  /\ pc' = "exited"
  /\ exit_code' = 1
  /\ Forget
  /\ UNCHANGED << llm, files, faults, last_checkpoint, tainted >>

Run ==
  \/ Start
  \/ Attempt
  \/ Process
  \/ SaveOpen
  \/ SaveDump
  \/ Sleep
  \/ WriteOutput
  \/ Cleanup

Next == Run \/ Interrupt

Spec == Init /\ [][Next]_vars

(***************************************************************************)
(* The crash scenario: the table of ScenarioRows rows, the process killed  *)
(* once, when row CrashRow has been processed and the loop is about to     *)
(* fetch the next row, and then run again.                                 *)
(***************************************************************************)
Init25 == InitOn({ Table25 })

CrashDue == interrupts = 0 /\ pc = "fetch" /\ pos = CrashRow + 1

Next25 ==
  \/ Run /\ ~ CrashDue
  \/ Interrupt /\ CrashDue

Spec25 == Init25 /\ [][Next25]_vars

(***************************************************************************)
(* Runs whose input may be missing or lack a required column, a progress   *)
(* file of an earlier run being there or not.                              *)
(***************************************************************************)
InputTables == { TableOf(<< >>), TableOf(<< 1 >>) } \cup BadTables

InitInput ==
  InitGiven(InputTables, { NoFile, JsonFile({ "A" }) }, { "present", "absent" })

SpecInput == InitInput /\ [][Next]_vars

(***************************************************************************)
(* Runs on a table of one row, with any of the flags and of the keys of    *)
(* the configuration file.                                                 *)
(***************************************************************************)
InitConfig ==
  /\ df = TableOf(<< 1 >>)
  /\ args \in ConfigLines
  /\ InitRest({ NoFile })
  /\ llm = NoChat

SpecConfig == InitConfig /\ [][Run]_vars

(***************************************************************************)
(* Runs that nothing interrupts, every step of which is taken in the end:  *)
(* a call of the lookup returns, a sleep ends, a write is done.            *)
(***************************************************************************)
InitLive == InitOn(SmallTables)

SpecLive == InitLive /\ [][Run]_vars /\ WF_vars(Run)

(***************************************************************************)
(* Runs with and without --resume, a progress file of an earlier run being *)
(* there or not.                                                           *)
(***************************************************************************)
InitResume ==
  /\ df \in SmallTables
  /\ args \in { [ cmd EXCEPT !.resume = flag ] :
                  cmd \in ArgsFor(df), flag \in BOOLEAN }
  /\ InitRest({ NoFile, JsonFile({ "A" }), JsonFile({ "A", "B" }) })
  /\ llm = NoChat

SpecResume == InitResume /\ [][Run]_vars

(***************************************************************************)
(* Runs on a table with more columns than the required ones.               *)
(***************************************************************************)
InitWide == InitOn(WideTables)

SpecWide == InitWide /\ [][Run]_vars

(***************************************************************************)
(* The field extractor on its own: one call of extract_card_fields on a    *)
(* record, the result kept as the only row of enriched_df.                 *)
(***************************************************************************)
\* a function of transformer.py is about to be called on one of the cards
InitCard(at, cards) ==
  /\ df = << >>
  /\ args \in ArgsFor(df)
  /\ progress_file = NoFile
  /\ output_file = NoOutput
  /\ pc = at
  /\ exit_code = 0
  /\ max_retries = 0
  /\ rate_limit = 0
  /\ log_setup = NoLogging
  /\ completed_cards = {}
  /\ enriched_df = << >>
  /\ cards_to_process = << >>
  /\ pos = 0
  /\ attempt = 0
  /\ card_data \in { Record(card) : card \in cards }
  /\ successful_fetches = 0
  /\ failed_fetches = 0
  /\ skipped_cards = 0
  /\ interrupts = 0
  /\ faults = 0
  /\ row_faulty = FALSE
  /\ loaded = {}
  /\ fetched = {}
  /\ row_fetches = 0
  /\ row_backoffs = 0
  /\ row_slept = 0
  /\ not_found = FALSE
  /\ last_row = NoRow
  /\ outcome = << >>
  /\ saves = 0
  /\ last_checkpoint = {}
  /\ tainted = {}
  /\ llm = NoChat

InitExtract == InitCard("extract", ExtractInputs)

Extract ==
  /\ pc = "extract"
  /\ enriched_df' = << extract_card_fields(card_data.card) >>
  /\ pc' = "extracted"
  /\ UNCHANGED << llm, files, exit_code, log_setup, max_retries,
                  rate_limit, completed_cards,
                  cards_to_process, pos, attempt, card_data,
                  successful_fetches, failed_fetches, skipped_cards, history >>

SpecExtract == InitExtract /\ [][Extract]_vars

(***************************************************************************)
(* _extract_image_urls on its own: one call on a record, the string it     *)
(* returns kept in the image_uris column of the only row of enriched_df.   *)
(***************************************************************************)
InitImages == InitCard("images", ImageInputs)

ExtractImages ==
  /\ pc = "images"
  /\ enriched_df' =
       << [ c \in { "image_uris" } |-> Str(_extract_image_urls(card_data.card)) ] >>
  /\ pc' = "imaged"
  /\ UNCHANGED << llm, files, exit_code, log_setup, max_retries,
                  rate_limit, completed_cards,
                  cards_to_process, pos, attempt, card_data,
                  successful_fetches, failed_fetches, skipped_cards, history >>

SpecImages == InitImages /\ [][ExtractImages]_vars


(***************************************************************************)
InitLoad == InitFound(SmallTables, FoundFiles)

SpecLoad == InitLoad /\ [][Run]_vars

(***************************************************************************)
(* llm_client.chat_prompt, called with any retries and backoff, with and   *)
(* without an API key in the configuration; the enrichment does not run.   *)
(***************************************************************************)
InitChat ==
  /\ df = << >>
  /\ args = CommandLine(DefaultMaxRetries, DefaultRateLimit)
  /\ InitRest({ NoFile })
  /\ llm \in { ChatCall(api_key, retries, backoff) :
                 api_key \in BOOLEAN, retries \in 0..MaxChatRetries,
                 backoff \in { DefaultBackoff \div 2, DefaultBackoff } }

\* "for attempt in range(retries)": the next pass of the loop, or the end of
\* the function, which returns None
ForAttempt(call, n) ==
  IF n < call.retries
  THEN [ call EXCEPT !.pc = "create", !.attempt = n ]
  ELSE [ call EXCEPT !.pc = "done", !.result = Returned("None") ]

\* "if attempt + 1 == retries"
LastAttempt(n, retries) == n + 1 = retries

sleep_flat(backoff, n) == backoff

\* "sleep_time = backoff * (2 ** attempt)"
sleep_time(backoff, n) == backoff * (2 ^ n)

\* load_config, the check of the API key, the client, the entry of the loop
ChatStart ==
  /\ llm.pc = "start"
  /\ llm' = IF ~ llm.api_key
            THEN [ llm EXCEPT !.pc = "done", !.result = Raises("ValueError") ]
            ELSE ForAttempt(llm, 0)
  /\ UNCHANGED << files, memory, history >>

\* the try block of one pass, and its except clause up to the sleep
ChatCreate ==
  /\ llm.pc = "create"
  /\ \E response \in Completions :
       LET called == [ llm EXCEPT !.calls = Append(llm.calls, response) ]
       IN llm' = IF response.ok
                 THEN [ called EXCEPT !.pc = "done", !.result = Returned(response.v) ]
                 ELSE IF LastAttempt(llm.attempt, llm.retries)
                      THEN [ called EXCEPT !.pc = "done", !.result = Raises(response.v) ]
                      ELSE [ called EXCEPT !.pc = "sleep" ]
  /\ UNCHANGED << files, memory, history >>

\* time.sleep(sleep_time), and the next pass
ChatSleep ==
  /\ llm.pc = "sleep"
  /\ llm' = ForAttempt(
              [ llm EXCEPT !.slept = Append(llm.slept, sleep_time(llm.backoff, llm.attempt)) ],
              llm.attempt + 1)
  /\ UNCHANGED << files, memory, history >>

chat_prompt ==
  \/ ChatStart
  \/ ChatCreate
  \/ ChatSleep

SpecChat == InitChat /\ [][chat_prompt]_vars

TypeOK ==
  /\ pc \in { "idle", "fetch", "process", "ckpt_open", "ckpt_dump", "sleep",
               "final_open", "final_dump", "returned", "cleanup", "exited",
               "extract", "extracted", "images", "imaged" }
  /\ exit_code \in { 0, 1 }
  /\ faults \in 0..MaxFaultyRows
  /\ interrupts \in 0..MaxInterrupts

(***************************************************************************)
(* Definitions the properties share.                                       *)
(***************************************************************************)
IdAt(i) == df[i]["Scryfall ID"]

Rows == 1..Len(df)

\* the set a run starting now would load
Persisted == load_progress(progress_file)

Failed(i) == outcome[i] \in { "no_record", "merge_error" }

\* the rows of the table that is returned or written have all a field empty
AllEmpty(row) == \A f \in FieldSet : row[f] = Str("")

\* the table a run gives when every lookup returns the full record at once
\* and the table takes every value: every row carries its card's fields
\* (no row does when max_retries = 0, as no lookup is made)
CleanTable(table, retries) ==
  [ i \in 1..Len(table) |->
      IF retries > 0
      THEN MergeRow(AddColumns(table)[i],
                    extract_card_fields(FullCard(table[i]["Scryfall ID"])), 0)
      ELSE AddColumns(table)[i] ]

\* a run that was not interrupted and met no fault writes the clean table
UninterruptedCleanRun ==
  (pc = "exited" /\ exit_code = 0 /\ faults = 0 /\ interrupts = 0)
    => output_file.rows =
         to_csv(CleanTable(df, Effective(args, "max_retries").v))

(***************************************************************************)
(* C1.  Resume gives the output of an uninterrupted run: with the lookup   *)
(* behaviour fixed (here: every lookup returns the full record at once),   *)
(* a run writes the table an uninterrupted run writes                      *)
(* (UninterruptedCleanRun), also when it resumes a run interrupted after   *)
(* the first checkpoint and so loads the 10 identifiers of that            *)
(* checkpoint; the rows completed before the interruption carry their      *)
(* fields.                                                                 *)
(* The code does not do this: the rows a resumed run skips stay empty.     *)
(***************************************************************************)
C1_ResumeSameAsUninterrupted ==
  ( /\ pc = "cleanup"
    /\ faults = 0
    /\ Cardinality(loaded) \in { 0, CheckpointEvery } )
    => output_file.rows = to_csv(CleanTable(df, max_retries))

(***************************************************************************)
(* C2.  A run fetches no row whose identifier is in the progress set it    *)
(* loaded, and skipped_cards is the number of those rows.                  *)
(***************************************************************************)
C2_NoFetchOfCompleted ==
  Running =>
    /\ \A i \in Rows : IdAt(i) \in loaded => i \notin fetched
    /\ skipped_cards = Cardinality({ i \in Rows : IdAt(i) \in loaded })

\* a resumed run has skipped a row and fetched another one
C2_Witness ==
  /\ pc = "returned"
  /\ skipped_cards > 0
  /\ fetched # {}

(***************************************************************************)
(* C3.  Done-set invariant: an identifier in the persisted progress set    *)
(* had its fields fetched and extracted without error; an extraction that  *)
(* failed never puts the identifier in the set.                            *)
(* The code breaks it: extract_card_fields swallows its own error, so the  *)
(* orchestrator marks the row completed.                                   *)
(***************************************************************************)
C3_DoneSetInvariant == Persisted \cap tainted = {}

(***************************************************************************)
(* C4.  Extraction failure is a failed row: when extraction fails on the   *)
(* record fetched for a row, the row is counted in failed_fetches, not in  *)
(* successful_fetches, and its identifier is not marked completed.         *)
(* The code counts it successful and marks it.                             *)
(***************************************************************************)
C4_ExtractionFailureIsFailedRow ==
  [][ ( /\ pc = "process"
        /\ pc' # "exited"
        /\ Truthy(card_data)
        /\ ExtractRaises(card_data.card) )
      => ( /\ failed_fetches' = failed_fetches + 1
           /\ successful_fetches' = successful_fetches
           /\ completed_cards' = completed_cards ) ]_vars

(***************************************************************************)
(* C5.  An interrupt at any point of the loop leaves the last checkpoint   *)
(* intact: after it the progress file holds exactly the identifiers the    *)
(* most recent completed save wrote.                                       *)
(* The code breaks it when the interrupt falls inside save_progress,       *)
(* between the truncation of the file and the write.                       *)
(***************************************************************************)
C5_InterruptKeepsCheckpoint ==
  (pc = "exited" /\ exit_code = 1) => Persisted = last_checkpoint

(***************************************************************************)
(* C6.  The crash scenario (Spec25).  As the scenario is worded, the run   *)
(* after the crash fetches only the rows after row CrashRow and those of   *)
(* the rows before the tenth that the checkpoint does not hold.            *)
(* The code fetches more: the rows that succeeded after the checkpoint     *)
(* (rows 11 and 12 when the first ten rows succeeded) are in no saved set. *)
(***************************************************************************)
C6_ResumeFetchesAfterCrashRow ==
  (interrupts = 1 /\ Running)
    => fetched \subseteq
         ( (CrashRow + 1)..Len(df) )
           \cup { i \in 1..(CheckpointEvery - 1) : IdAt(i) \notin loaded }

(***************************************************************************)
(* C6, as the code has it: one checkpoint fired before the crash, at       *)
(* success number 10, so the run after the crash loads 10 identifiers, all *)
(* of rows up to CrashRow; it fetches exactly the rows whose identifier is *)
(* not among them (the rows after CrashRow, the rows that failed, the rows *)
(* that succeeded after the checkpoint) and no other row.                  *)
(***************************************************************************)
C6_ResumeFetchesUncheckpointed ==
  (interrupts = 1 /\ Running)
    => /\ Cardinality(loaded) = CheckpointEvery
       /\ \A i \in Rows : IdAt(i) \in loaded => i <= CrashRow
       /\ fetched \subseteq { i \in Rows : IdAt(i) \notin loaded }
       /\ pc = "returned" => fetched = { i \in Rows : IdAt(i) \notin loaded }

\* the run after the crash has fetched a row that failed before the
\* checkpoint, row CrashRow and the last row
C6_Witness ==
  /\ interrupts = 1
  /\ pc = "returned"
  /\ Len(df) = ScenarioRows
  /\ \E i \in 1..(CheckpointEvery - 1) : i \in fetched
  /\ CrashRow \in fetched
  /\ ScenarioRows \in fetched

(***************************************************************************)
(* C7.  Schema completeness: in the table enrich_card_data returns every   *)
(* row has every field of get_required_fields, and a failed row has the    *)
(* empty string in each of them.                                           *)
(* The code breaks the second part: a merge that stops at a value the      *)
(* table refuses leaves the fields merged before it on a row it counts     *)
(* failed.                                                                 *)
(***************************************************************************)
C7_SchemaComplete ==
  pc = "returned"
    => \A i \in Rows :
         /\ FieldSet \subseteq DOMAIN enriched_df[i]
         /\ Failed(i) => AllEmpty(enriched_df[i])

(***************************************************************************)
(* C8.  Retry bound, as the claim has it: a row whose every fetch gave     *)
(* nothing is fetched max_retries times, with max_retries - 1 retry sleeps *)
(* of rate_limit * 2 and one row sleep of rate_limit.                      *)
(* With max_retries = 0 the count of retry sleeps is 0, not -1.            *)
(***************************************************************************)
C8_RetryBoundAnyRetries ==
  last_row.outcome = "no_record"
    => /\ last_row.fetches = max_retries
       /\ last_row.backoffs = max_retries - 1
       /\ last_row.slept = (max_retries - 1) * rate_limit * 2 + rate_limit

(***************************************************************************)
(* C8, as the code has it: with max_retries >= 1 a row whose every fetch   *)
(* gave nothing (no record, or an exception) is fetched max_retries times, *)
(* sleeps max_retries - 1 times rate_limit * 2 and once rate_limit, and is *)
(* counted failed; with max_retries = 0 it is not fetched and sleeps       *)
(* rate_limit once.  failed_fetches counts the failed rows.                *)
(***************************************************************************)
C8_RetryBound ==
  /\ (last_row.outcome = "no_record" /\ max_retries >= 1)
       => /\ last_row.fetches = max_retries
          /\ last_row.backoffs = max_retries - 1
          /\ last_row.slept = (max_retries - 1) * rate_limit * 2 + rate_limit
  /\ (last_row.outcome = "no_record" /\ max_retries = 0)
       => /\ last_row.fetches = 0
          /\ last_row.backoffs = 0
          /\ last_row.slept = rate_limit
  /\ Running => failed_fetches = Cardinality({ i \in Rows : Failed(i) })

\* a row has used up the default number of attempts
C8_Witness ==
  /\ last_row.outcome = "no_record"
  /\ max_retries = DefaultMaxRetries
  /\ last_row.fetches = DefaultMaxRetries
  /\ last_row.backoffs = DefaultMaxRetries - 1
  /\ failed_fetches = 1

(***************************************************************************)
(* C9.  A failing row never aborts the batch: the loop leaves no row of    *)
(* cards_to_process behind, whatever became of the rows before it, and     *)
(* reaches the final save and the return.                                  *)
(***************************************************************************)
C9_FailingRowNeverAborts ==
  /\ Running =>
       \A k \in 1..Len(cards_to_process) :
         k < pos => outcome[cards_to_process[k]] # "pending"
  /\ pc \in { "final_open", "final_dump", "returned", "cleanup" } =>
       \A k \in 1..Len(cards_to_process) :
         outcome[cards_to_process[k]] # "pending"

\* the run has returned the table, a row that failed before a row that
\* succeeded
C9_Witness ==
  /\ pc = "returned"
  /\ \E i, j \in Rows : i < j /\ Failed(i) /\ outcome[j] = "success"

(***************************************************************************)
(* C10.  The three-row scenario: identifiers A, B, C, nothing loaded,      *)
(* max_retries = 3, the lookup gives the record for A and C and nothing    *)
(* for B on its three attempts.  The run returns with successful = 2,      *)
(* failed = 1, skipped = 0, the progress set {A, C} (in memory and in the  *)
(* file), and row B with the empty string in every enrichment field.       *)
(***************************************************************************)
C10_Scenario ==
  /\ df = TableABC
  /\ max_retries = 3
  /\ loaded = {}
  /\ pc = "returned"
  /\ outcome = << "success", "no_record", "success" >>

C10_ThreeRows ==
  C10_Scenario
    => /\ successful_fetches = 2
       /\ failed_fetches = 1
       /\ skipped_cards = 0
       /\ completed_cards = { "A", "C" }
       /\ Persisted = { "A", "C" }
       /\ AllEmpty(enriched_df[2])
       /\ \A f \in FieldSet : to_csv(enriched_df)[2][f] = ""

C10_Witness == C10_Scenario /\ fetched = { 1, 2, 3 }

(***************************************************************************)
(* C11.  The progress file is deleted only after a fully successful run:   *)
(* a step that removes the progress file is the clean-up of a run that     *)
(* processed the whole table, wrote the output and left no row failed.     *)
(* The code removes the file after every run that returns, also when rows  *)
(* failed, so the record of the rows that succeeded is lost.               *)
(***************************************************************************)
C11_ProgressDeletedOnlyAfterFullSuccess ==
  [][ (progress_file # NoFile /\ progress_file' = NoFile)
      => ( /\ pc = "cleanup"
           /\ output_file.written
           /\ failed_fetches = 0 ) ]_vars

(***************************************************************************)
(* C12.  A missing or corrupt progress file is tolerated (SpecLoad): when  *)
(* the progress file a run finds is missing or does not hold valid         *)
(* progress data (a JSON object whose completed_cards is a list), the run  *)
(* loads the empty set and skips no row.                                   *)
(* The code loads a non-empty set from some invalid content: set(...) of   *)
(* a dict is its keys and of a string its characters.                      *)
(***************************************************************************)
ValidProgress(file) ==
  \/ file.state = "json"
  \/ /\ file.state = "foreign"
     /\ file.content.t = "obj"
     /\ "completed_cards" \in DOMAIN file.content.v
     /\ file.content.v["completed_cards"].t = "list"

\* the progress file is still the one the run found
Untouched == pc \in { "fetch", "process", "sleep", "final_open" } /\ saves = 0

C12_CorruptProgressTolerated ==
  (Untouched /\ ~ ValidProgress(progress_file))
    => (loaded = {} /\ skipped_cards = 0)

(***************************************************************************)
(* C13.  mark_completed is idempotent and memory-only: the step that marks *)
(* a row's identifier leaves it in the in-memory set (is_completed is true *)
(* of it), adds nothing else, leaves the set as it was when the identifier *)
(* was already marked (a table can hold an identifier twice), and leaves   *)
(* the progress file unchanged; the file changes only in save_progress.    *)
(***************************************************************************)
C13_MarkIdempotentMemoryOnly ==
  [][ /\ (pc = "process" /\ successful_fetches' = successful_fetches + 1)
         => /\ is_completed(completed_cards', IdAt(Index))
            /\ completed_cards' = completed_cards \cup { IdAt(Index) }
            /\ is_completed(completed_cards, IdAt(Index))
                 => completed_cards' = completed_cards
            /\ progress_file' = progress_file
      /\ (Running /\ pc' # "exited" /\ progress_file' # progress_file)
         => pc \in { "ckpt_open", "ckpt_dump", "final_open", "final_dump",
                     "cleanup" } ]_vars

\* an identifier has been marked twice and no save has been made
C13_Witness ==
  /\ pc = "sleep"
  /\ saves = 0
  /\ \E i, j \in Rows :
       /\ i < j
       /\ IdAt(i) = IdAt(j)
       /\ outcome[i] = "success"
       /\ outcome[j] = "success"
       /\ completed_cards = { IdAt(i) }
  /\ Persisted = {}

(***************************************************************************)
(* C14.  A not-found outcome is definitive and is not retried: once a call *)
(* for a row has been answered 404, the orchestrator makes no further call *)
(* for that row.                                                           *)
(* The code retries: get_card_by_id returns None for 404 as it does for a  *)
(* timeout or a 5xx, and the retry loop goes on after any None.            *)
(***************************************************************************)
C14_NotFoundNotRetried ==
  [][ (pc = "fetch" /\ not_found) => row_fetches' # row_fetches + 1 ]_vars

(***************************************************************************)
(* C15.  The field extractor is total and schema-complete (SpecExtract),   *)
(* as the claim has it: the mapping extract_card_fields returns has        *)
(* exactly the keys of get_required_fields, every key missing from the     *)
(* record gives the empty string, and a record on which a statement of the *)
(* extractor raises gives the empty string in every field.                 *)
(* The second part fails for image_uris: when the record has no image_uris *)
(* key the URLs are taken from its card_faces.                             *)
(***************************************************************************)
C15_ExtractorMissingKeyEmpty ==
  pc = "extracted"
    => LET card == card_data.card
           extracted == enriched_df[1]
       IN /\ DOMAIN extracted = FieldSet
          /\ \A f \in FieldSet \ DOMAIN card : extracted[f] = Str("")
          /\ ExtractRaises(card) => AllEmpty(extracted)

(***************************************************************************)
(* C15, as the code has it: exactly the keys of get_required_fields; a     *)
(* record on which a statement raises gives the empty string in every      *)
(* field; otherwise a missing key gives the empty string, except that a    *)
(* record without image_uris and with card_faces gives the URLs of its     *)
(* faces, joined with ','.                                                 *)
(***************************************************************************)
C15_ExtractorTotal ==
  pc = "extracted"
    => LET card == card_data.card
           extracted == enriched_df[1]
       IN /\ DOMAIN extracted = FieldSet
          /\ ExtractRaises(card) => AllEmpty(extracted)
          /\ \A f \in FieldSet \ DOMAIN card :
               IF f = "image_uris" /\ "card_faces" \in DOMAIN card
                  /\ ~ ExtractRaises(card)
               THEN extracted[f] = Str(Join(FaceUrls(card["card_faces"].v)))
               ELSE extracted[f] = Str("")

\* a record with a mana cost and a null where the colours are expected has
\* given the empty string in every field
C15_Witness ==
  /\ pc = "extracted"
  /\ "mana_cost" \in DOMAIN card_data.card
  /\ "colors" \in DOMAIN card_data.card
  /\ card_data.card["colors"] = Null
  /\ AllEmpty(enriched_df[1])

(***************************************************************************)
(* C16.  Order is preserved (SpecWide): a row is fetched for the first     *)
(* time only after every row fetched before it precedes it in the input,   *)
(* and the table returned and the table written have the rows of the input *)
(* in the same order, every column of the input with the value it had.     *)
(* The code breaks the last part for an input column that has the name of  *)
(* an enrichment field: it is set to '' in every row.                      *)
(***************************************************************************)
SameRows(table) ==
  /\ Len(table) = Len(df)
  /\ \A i \in Rows :
       \A c \in DOMAIN df[i] : c \in DOMAIN table[i] /\ table[i][c] = df[i][c]

FetchedInOrder == \A j \in fetched' \ fetched : \A i \in fetched : i < j

C16_OrderPreserved ==
  [][ /\ FetchedInOrder
      /\ pc' = "returned" => SameRows(to_csv(enriched_df'))
      /\ pc' = "cleanup" => SameRows(output_file'.rows) ]_vars

\* the same for the columns that do not have the name of an enrichment field
SameOwnRows(table) ==
  /\ Len(table) = Len(df)
  /\ \A i \in Rows :
       \A c \in DOMAIN df[i] \ FieldSet :
         c \in DOMAIN table[i] /\ table[i][c] = df[i][c]

OrderAndOwnColumnsKept ==
  [][ /\ FetchedInOrder
      /\ pc' = "returned" => SameOwnRows(to_csv(enriched_df'))
      /\ pc' = "cleanup" => SameOwnRows(output_file'.rows) ]_vars

(***************************************************************************)
(* C17.  Input errors abort before any processing (SpecInput): when the    *)
(* input file is missing or lacks a required column, main exits with code  *)
(* 1 in its first step, without a lookup, without loading or changing the  *)
(* progress file and without writing the output file, and no run on such   *)
(* an input is ever in the loop; an interrupt makes main exit with code 1; *)
(* main exits with code 0 only from its clean-up, the output written.      *)
(***************************************************************************)
BadInput ==
  \/ args.input = "absent"
  \/ \E i \in Rows : \E c \in { "Name", "Set code", "Scryfall ID" } :
       c \notin DOMAIN df[i]

C17_InputErrorsAbort ==
  [][ /\ (pc = "idle" /\ BadInput)
         => /\ pc' = "exited"
            /\ exit_code' = 1
            /\ progress_file' = progress_file
            /\ output_file' = output_file
            /\ fetched' = {}
            /\ loaded' = {}
      /\ BadInput => ~ Running'
      /\ (pc' = "exited" /\ interrupts' = interrupts + 1) => exit_code' = 1
      /\ (pc # "exited" /\ pc' = "exited" /\ exit_code' = 0)
         => (pc = "cleanup" /\ output_file'.written) ]_vars

\* main has exited with code 1 on a table without a required column, the
\* progress file of an earlier run untouched, no output written
C17_Witness ==
  /\ pc = "exited"
  /\ exit_code = 1
  /\ args.input = "present"
  /\ BadInput
  /\ progress_file = JsonFile({ "A" })
  /\ ~ output_file.written

(***************************************************************************)
(* C18.  Configuration precedence (SpecConfig): for log_level, log_file,   *)
(* rate_limit and max_retries the value a run works with is the value of   *)
(* the flag when the flag is given, the value of the configuration file    *)
(* when only the file gives one, and the built-in default otherwise.       *)
(* The code takes the configuration file's value only for log_file: the    *)
(* other three flags have a default in the parser, which "or" prefers to   *)
(* the file; and a flag given as 0 is passed over.                         *)
(***************************************************************************)
Wanted(name) ==
  IF name \in DOMAIN args.flags THEN args.flags[name]
  ELSE IF name \in DOMAIN args.config THEN args.config[name]
  ELSE Default(name)

C18_ConfigPrecedence ==
  Running
    => /\ log_setup.level = Wanted("log_level")
       /\ log_setup.file = Wanted("log_file")
       /\ rate_limit = Wanted("rate_limit").v
       /\ max_retries = Wanted("max_retries").v

\* what holds of the code: the flag when it is given and not 0, the default
\* of the parser when it is not given (the configuration file's value for
\* log_file), the configuration file's value or the default when it is 0
ConfigOnlyBehindFalsyFlag ==
  Running
    => \A name \in Settings :
         LET chosen ==
               CASE name = "log_level" -> log_setup.level
                 [] name = "log_file" -> log_setup.file
                 [] name = "rate_limit" -> Num(rate_limit)
                 [] OTHER -> Num(max_retries)
             given == name \in DOMAIN args.flags
             zero == given /\ args.flags[name].t = "num" /\ args.flags[name].v = 0
         IN chosen.t = (IF given /\ ~ zero THEN args.flags[name].t
                         ELSE IF name = "log_file" \/ zero
                              THEN Get(args.config, name, Default(name)).t
                              ELSE Default(name).t)
            /\ chosen.v = (IF given /\ ~ zero THEN args.flags[name].v
                           ELSE IF name = "log_file" \/ zero
                                THEN Get(args.config, name, Default(name)).v
                                ELSE Default(name).v)

(***************************************************************************)
(* C19.  The retry policy of chat_prompt (SpecChat): at most retries calls *)
(* to the completion service are made; the text of the first call that     *)
(* succeeds is returned and no call follows it; after the k-th failed call *)
(* (k from 0) the function sleeps backoff * 2^k when a further attempt     *)
(* remains; after the retries-th failure it raises the last error without  *)
(* a sleep.  With the defaults: 3 attempts, sleeps of 1 s and 2 s.         *)
(***************************************************************************)
ChatFailures == { k \in 1..Len(llm.calls) : ~ llm.calls[k].ok }

C19_ChatRetryPolicy ==
  LET n == Len(llm.calls)
      due == Cardinality({ k \in ChatFailures : k < llm.retries })
  IN /\ n <= llm.retries
     /\ \A k \in 1..n :
          llm.calls[k].ok
            => /\ k = n
               /\ llm.pc = "done"
               /\ llm.result = Returned(llm.calls[k].v)
     /\ \A k \in 1..Len(llm.slept) : llm.slept[k] = llm.backoff * (2 ^ (k - 1))
     /\ Len(llm.slept) = IF llm.pc = "sleep" THEN due - 1 ELSE due
     /\ (n > 0 /\ n = llm.retries /\ ~ llm.calls[n].ok)
          => (llm.pc = "done" /\ llm.result = Raises(llm.calls[n].v))
     /\ (/\ llm.retries = DefaultRetries
         /\ llm.backoff = DefaultBackoff
         /\ llm.pc = "done"
         /\ llm.result.kind = "raise"
         /\ llm.api_key)
          => (n = 3 /\ llm.slept = << 1000, 2000 >>)

C19_Witness ==
  /\ llm.retries = DefaultRetries
  /\ llm.backoff = DefaultBackoff
  /\ llm.pc = "done"
  /\ llm.result = Raises("APITimeoutError")
  /\ Len(llm.calls) = DefaultRetries
  /\ Len(llm.slept) = DefaultRetries - 1

(***************************************************************************)
(* C20.  Checkpointing bounds the loss (Spec25): at every row boundary of  *)
(* the loop, fewer than 10 of the identifiers marked completed in memory   *)
(* during this run are absent from the progress file, whatever rows        *)
(* succeed and fail, in the first run and in the run resumed from the      *)
(* progress set the first left.                                            *)
(***************************************************************************)
\* between two rows, a row not yet marked included, and after the last row
RowBoundary == pc \in { "fetch", "process", "sleep", "final_open" }

MarkedThisRun == completed_cards \ loaded

Unsaved == MarkedThisRun \ Persisted

Succeeded == { IdAt(i) : i \in { j \in Rows : outcome[j] \in { "success", "degraded" } } }

RecordAtAttempt ==
  /\ row_fetches = attempt + 1
  /\ row_fetches \in 1..max_retries
  /\ row_backoffs = row_fetches - 1
  /\ row_slept = (row_fetches - 1) * (rate_limit * 2)

\* an attempt is one call, and no call follows the one that gave a record
OneCallPerAttempt ==
  /\ row_fetches' # row_fetches => (pc = "fetch" /\ row_fetches' = row_fetches + 1)
                                     \/ row_fetches' = 0
  /\ (pc = "process" /\ Truthy(card_data) /\ pc' # "exited")
       => /\ row_fetches' = row_fetches
          /\ row_backoffs' = row_backoffs
          /\ row_slept' = row_slept
          /\ pc' \in { "sleep", "ckpt_open" }

C22_RecordCountedSuccessful ==
  [][ /\ OneCallPerAttempt
      /\ (pc = "process" /\ Truthy(card_data) /\ pc' # "exited")
           => /\ RecordAtAttempt
              /\ successful_fetches' = successful_fetches + 1
              /\ failed_fetches' = failed_fetches ]_vars

C22_RecordStopsRetries ==
  [][ /\ OneCallPerAttempt
      /\ (pc = "process" /\ Truthy(card_data) /\ pc' # "exited")
           => /\ RecordAtAttempt
              /\ IF outcome'[Index] = "merge_error"
                 THEN /\ successful_fetches' = successful_fetches
                      /\ failed_fetches' = failed_fetches + 1
                 ELSE /\ successful_fetches' = successful_fetches + 1
                      /\ failed_fetches' = failed_fetches ]_vars

C22_Witness ==
  /\ pc \in { "sleep", "ckpt_open" }
  /\ outcome[Index] = "success"
  /\ max_retries = DefaultMaxRetries
  /\ row_fetches = DefaultMaxRetries
  /\ row_backoffs = DefaultMaxRetries - 1

(***************************************************************************)
(* C23.  Flat rate limit (Spec): after each row of cards_to_process,       *)
(* succeeded or failed, one sleep of rate_limit is made before the first   *)
(* fetch of the next row, on top of the backoff sleeps of the row; a       *)
(* skipped row has no sleep.                                               *)
(***************************************************************************)
\* the loop is at the first fetch of a row that is not the first one
NextRowEntered == pc = "fetch" /\ row_fetches = 0 /\ pos > 1

C23_FlatRateLimit ==
  [][ /\ (Running /\ pc' # "exited" /\ pos' # pos)
           => /\ pc = "sleep"
              /\ outcome[Index] \notin { "pending", "skipped" }
              /\ last_row'.index = Index
              /\ last_row'.slept = row_slept + rate_limit
      /\ NextRowEntered
           => /\ last_row.index = cards_to_process[pos - 1]
              /\ last_row.outcome \notin { "pending", "skipped" }
              /\ last_row.slept
                   = last_row.backoffs * (rate_limit * 2) + rate_limit ]_vars

C23_Witness ==
  /\ NextRowEntered
  /\ last_row.outcome = "no_record"
  /\ last_row.backoffs = DefaultMaxRetries - 1
  /\ last_row.slept = (DefaultMaxRetries - 1) * (rate_limit * 2) + rate_limit
  /\ rate_limit > 0

(***************************************************************************)
(* C24.  The merge touches only the row's own position (SpecWide): when    *)
(* the extraction for the row at table index i succeeds, only the          *)
(* enrichment fields of output row i change; every other output row, every *)
(* column row i had in the input, and the input table stay as they were.   *)
(* A column of the input that has the name of an enrichment field is       *)
(* written by the merge.                                                   *)
(***************************************************************************)
\* the step that merges the fields of a row whose extraction succeeded
MergeStep ==
  /\ pc = "process"
  /\ pc' # "exited"
  /\ outcome'[Index] \in { "success", "degraded" }

\* the merge leaves the columns in kept of its row, and all else, alone
MergeFrame(kept) ==
  /\ df' = df
  /\ Len(enriched_df') = Len(enriched_df)
  /\ \A j \in Rows \ { Index } : enriched_df'[j] = enriched_df[j]
  /\ DOMAIN enriched_df'[Index] = DOMAIN enriched_df[Index]
  /\ \A c \in kept : enriched_df'[Index][c] = enriched_df[Index][c]

C24_MergeTouchesOwnRow ==
  [][ MergeStep
        => MergeFrame((DOMAIN enriched_df[Index] \ FieldSet) \cup DOMAIN df[Index]) ]_vars

\* the same for the columns that do not have the name of an enrichment field
MergeKeepsOtherColumns ==
  [][ MergeStep => MergeFrame(DOMAIN enriched_df[Index] \ FieldSet) ]_vars

(***************************************************************************)
(* C25.  Image URL selection (SpecImages): a record with an image set of   *)
(* its own gives its normal then its small URL, each only if present;      *)
(* otherwise a record with faces gives every face's normal then small URL  *)
(* in face order; the result is joined with commas and is the empty string *)
(* when there is no image.  In particular a record with faces whose own    *)
(* image set has neither a normal nor a small URL gives the URLs of its     *)
(* faces.  The code does not look at the faces of a record that has the    *)
(* key image_uris, whatever the image set holds.                           *)
(***************************************************************************)
\* the URLs of the record's own image set, none when it has no such set
OwnUrls(card) ==
  IF "image_uris" \in DOMAIN card THEN ImageSetUrls(card["image_uris"]) ELSE << >>

SelectedUrls(card) ==
  IF OwnUrls(card) # << >> THEN OwnUrls(card)
  ELSE IF "card_faces" \in DOMAIN card THEN FaceUrls(card["card_faces"].v)
  ELSE << >>

C25_ImageUrlSelection ==
  pc = "imaged"
    => enriched_df[1]["image_uris"] = Str(Join(SelectedUrls(card_data.card)))

\* what holds of the code: the faces are used only by a record without the
\* key image_uris
FacesOnlyWithoutOwnKey ==
  pc = "imaged"
    => enriched_df[1]["image_uris"]
         = Str(Join(IF "image_uris" \in DOMAIN card_data.card
                    THEN OwnUrls(card_data.card)
                    ELSE SelectedUrls(card_data.card)))

(***************************************************************************)
(* C26.  The outcome counts partition the table (Spec25): at every row     *)
(* boundary successful + failed is the number of rows of cards_to_process  *)
(* handled so far; when enrich_card_data returns, successful + failed +    *)
(* skipped is the number of rows of the input; every row is counted in     *)
(* exactly one of the three.                                               *)
(***************************************************************************)
\* the rows of cards_to_process the loop is done with
Handled ==
  IF pc \in { "fetch", "process" } THEN pos - 1
  ELSE IF pc \in { "sleep", "ckpt_open", "ckpt_dump" } THEN pos
  ELSE Len(cards_to_process)

CountOf(kinds) == Cardinality({ i \in Rows : outcome[i] \in kinds })

C26_CountsPartition ==
  Running
    => /\ successful_fetches + failed_fetches = Handled
       /\ successful_fetches = CountOf({ "success", "degraded" })
       /\ failed_fetches = CountOf({ "no_record", "merge_error" })
       /\ skipped_cards = CountOf({ "skipped" })
       /\ pc = "returned"
            => /\ successful_fetches + failed_fetches + skipped_cards = Len(df)
               /\ CountOf({ "pending" }) = 0

C26_Witness ==
  /\ pc = "returned"
  /\ skipped_cards = CheckpointEvery
  /\ successful_fetches > 0
  /\ failed_fetches > 0
  /\ successful_fetches + failed_fetches + skipped_cards = ScenarioRows

(***************************************************************************)
(* C27.  Progress influences a run only when resume is asked for           *)
(* (SpecResume): a run of main started without --resume skips no row and   *)
(* fetches every row of the input, even when a progress file of an earlier *)
(* run is there; only with --resume are the identifiers of the file        *)
(* skipped.  The code never reads args.resume: the tracker loads the file  *)
(* in every run.                                                           *)
(***************************************************************************)
C27_ProgressOnlyWithResume ==
  (Running /\ ~ args.resume)
    => /\ skipped_cards = 0
       /\ \A i \in Rows : outcome[i] # "skipped"
       /\ Len(cards_to_process) = Len(df)

\* what holds of the code: with and without --resume the rows whose
\* identifier is in the progress file are skipped
ProgressAlwaysLoaded ==
  pc \in { "fetch", "process", "sleep", "final_open" }
    => /\ loaded = (IF saves = 0 THEN Persisted ELSE loaded)
       /\ \A i \in Rows : outcome[i] = "skipped" <=> IdAt(i) \in loaded

(***************************************************************************)
(* C28.  The persisted progress set never shrinks during a run (Spec): the *)
(* set load_progress would read from the progress file at any instant of a *)
(* run holds the set it would have read at any earlier instant of that     *)
(* run, also when the process is interrupted or the write fails inside     *)
(* save_progress.  save_progress truncates the file before it writes.      *)
(***************************************************************************)
\* a step of enrich_card_data, or the interrupt of one
StepOfRun == pc \notin { "idle", "exited", "returned", "cleanup" }

C28_PersistedNeverShrinks ==
  [][ StepOfRun => Persisted \subseteq Persisted' ]_vars

\* what holds of the code: the set shrinks only when save_progress opens the
\* file, and every other step of a run keeps it or adds to it
ShrinksOnlyAtOpen ==
  [][ (StepOfRun /\ pc \notin { "ckpt_open", "final_open" })
        => Persisted \subseteq Persisted' ]_vars

(***************************************************************************)
(* C29.  Duplicate identifiers are handled per row (Spec): the partition   *)
(* is made once, before the loop, so two rows that share an identifier     *)
(* which is not in the progress set at the start are both in               *)
(* cards_to_process, each is fetched on its own in the same run (the       *)
(* second is not skipped for the mark the first made), and each carries    *)
(* the enrichment fields once its record is merged; the identifiers of the *)
(* loaded progress set are in every checkpoint the run writes.             *)
(***************************************************************************)
\* pairs of table positions with the same identifier, new to this run
Duplicates ==
  { p \in Rows \X Rows :
      p[1] < p[2] /\ IdAt(p[1]) = IdAt(p[2]) /\ IdAt(p[1]) \notin loaded }

InToProcess(i) == \E k \in 1..Len(cards_to_process) : cards_to_process[k] = i

C29_DuplicatesPerRow ==
  /\ (Running /\ saves > 0) => loaded \subseteq last_checkpoint
  /\ Running
       => \A p \in Duplicates : \A i \in { p[1], p[2] } :
            /\ InToProcess(i)
            /\ outcome[i] # "skipped"
            /\ outcome[i] = "success" => (i \in fetched /\ ~ AllEmpty(enriched_df[i]))
            /\ (pc = "returned" /\ max_retries > 0) => i \in fetched

C29_Witness ==
  /\ pc = "returned"
  /\ Duplicates # {}
  /\ \A p \in Duplicates : outcome[p[1]] = "success" /\ outcome[p[2]] = "success"
  /\ \A p \in Duplicates : enriched_df[p[1]] = enriched_df[p[2]]
  /\ Cardinality(completed_cards) = 1

(***************************************************************************)
(* C30.  The enrichment run terminates (SpecLive): for any table, any      *)
(* max_retries >= 0 and any lookup whose calls return (a record, nothing,  *)
(* or an exception), enrich_card_data returns in the end, after at most    *)
(* max_retries lookup calls for each row of cards_to_process, each row     *)
(* being gone through once: at most max_retries * |cards_to_process| calls *)
(* in all.                                                                 *)
(***************************************************************************)
InFunction ==
  pc \in { "fetch", "process", "sleep", "ckpt_open", "ckpt_dump",
           "final_open", "final_dump" }

\* a call is one more call for the row the loop is at, within max_retries;
\* the loop goes from a row to the next one only, and no call is made for a
\* row it has left
CallsWithinRetries ==
  /\ row_fetches' # row_fetches
       => \/ /\ row_fetches' = row_fetches + 1
             /\ row_fetches' <= max_retries
             /\ pos \in 1..Len(cards_to_process)
             /\ pos' = pos
             /\ fetched' = fetched \cup { cards_to_process[pos] }
          \/ row_fetches' = 0
  /\ (InFunction /\ pc' # "exited")
       => /\ pos' \in { pos, pos + 1 }
          /\ pos' = pos + 1 => row_fetches' = 0
          /\ row_fetches' = row_fetches => fetched' = fetched
          /\ cards_to_process' = cards_to_process

C30_RunTerminates ==
  /\ [][CallsWithinRetries]_vars
  /\ InFunction ~> pc = "returned"

C30_Witness ==
  /\ pc = "returned"
  /\ max_retries = DefaultMaxRetries
  /\ Len(cards_to_process) = MaxSmallRows
  /\ failed_fetches > 0
  /\ last_row.fetches = DefaultMaxRetries

====
